---- MODULE Spec2Model ----
(***************************************************************************)
(* Booking lifecycle of the rental server: the guest routes POST /bookings *)
(* and PUT /bookings/:id/cancel, the host route PUT /bookings/:id/status,  *)
(* over the Booking, Property and User tables of the Prisma schema.        *)
(*                                                                         *)
(* Time is counted in hours.  A request is a step of the model; its HTTP   *)
(* response (status code and message) is kept in the variable last.        *)
(***************************************************************************)
EXTENDS Integers, Sequences, FiniteSets, TLC

\* ---------------------------------------------------------------- bounds

\* Most rows the Booking table holds in a run of the model.
MaxBookings == 2

\* Most requests that are between their read and their write at the same
\* time.
MaxInflight == 2

\* Most rows the PropertyImage table is given in a run of the model.
MaxImages == 3

\* ------------------------------------------------------ program constants

\* guest.js:576  if (hoursUntilStart < 24)
CancelLeadHours == 24

\* guest.js:432  Math.ceil(diffTime / (1000 * 60 * 60 * 24)), in hours
HoursPerDay == 24

\* guest.js:441  property.price * (days / 30)
DaysPerMonth == 30

\* guest.js:444  property.price * (days / 365)
DaysPerYear == 365

\* host.js:469  if (currentImagesCount + req.files.length > 20)
MaxImagesPerProperty == 20

\* schema.prisma:  availableFrom DateTime?, availableTo DateTime?  A date that
\* is null in a row, or missing from a request, is written NullDate.
NullDate == -1

\* ------------------------------------------------------------ input sets

\* The unauthenticated caller: req.isAuthenticated() is false.
Anon == "anon"

UserIds == {"admin", "h1", "h2", "g1", "g2"}

PropertyIds == {"p1", "p2"}

\* The clock readings the model visits, in hours.
Instants == {0, 25}

\* The date ranges <<startDate, endDate>> well-formed requests carry, in hours:
\* <<24, 48>> and <<48, 60>> share a boundary date, <<24, 48>> and <<60, 96>>
\* are disjoint, <<48, 60>> is half a day and <<60, 96>> a day and a half.
\* At 0 the start 24 is exactly 24 hours away; at 25 the start 48 is 23 hours
\* away and the start 24 is in the past.
DateRanges == {<<24, 48>>, <<48, 60>>, <<60, 96>>}

\* Ranges whose end is not after their start.
BadRanges == {<<48, 24>>, <<24, 24>>}

\* A property id no row has.
NoProperty == "p9"

\* The POST /bookings requests the model enumerates, <<caller, propertyId,
\* startDate, endDate, guestCount>>: guest g1 on p1 and on p2, host h1 on the
\* property it owns (with good and bad ranges, with and without a guest
\* count), and requests that are unauthenticated, lack a field (guestCount 0
\* stands for a missing, falsy field) or name no property.
BookingRequests ==
    {<<"g1", "p1", r[1], r[2], 1>> : r \in DateRanges \cup BadRanges}
    \cup {<<"g1", "p2", 24, 48, 1>>}
    \cup {<<"h1", "p1", r[1], r[2], 1>> : r \in DateRanges \cup BadRanges}
    \cup {<<"h1", "p1", 24, 48, 0>>, <<"h1", "p1", 24, 48, 2>>}
    \cup {<<Anon, "p1", 24, 48, 1>>, <<"g1", "p1", 24, 48, 0>>, <<"g1", NoProperty, 24, 48, 1>>}

\* Callers of PUT /bookings/:id/cancel the model enumerates: nobody, the
\* guest of the bookings, another guest.
CancelActors == {Anon, "g1", "g2"}

\* The PUT /bookings/:id/status requests the model enumerates, <<caller,
\* status>>: the admin and both hosts with each accepted status, callers the
\* middleware turns away, and a host with a missing ("") or unaccepted status.
StatusRequests ==
    {<<u, s>> : u \in {"admin", "h1", "h2"}, s \in {"confirmed", "cancelled", "completed"}}
    \cup {<<Anon, "confirmed">>, <<"g1", "confirmed">>, <<"h1", "">>, <<"h1", "pending">>}

VARIABLES
    users,       \* User table: id -> role
    properties,  \* Property table: id -> row
    bookings,    \* Booking table: the sequence of rows, id = index (autoincrement)
    now,         \* the clock, new Date()
    inflight,    \* requests that passed their checks and await their write
    seen,        \* seen[id]: how many Booking rows existed when booking id's overlap read ran
    reviews,     \* Review table: the set of rows, at most one per booking (bookingId @unique)
    images,      \* PropertyImage table: the sequence of rows, id = index; a deleted row stays, marked
    last         \* the last response sent

vars == <<users, properties, bookings, now, inflight, seen, reviews, images, last>>

\* ------------------------------------------------------------ middleware

\* auth.js:115-120  isAuthenticated
IsAuthenticated(u) == u \in DOMAIN users

\* auth.js:123-135  hasRole(roles): 0 stands for next()
HasRole(roles, u) ==
    IF ~IsAuthenticated(u) THEN 401
    ELSE IF users[u] \in roles THEN 0
    ELSE 403

\* host.js:13  isHostOrAdmin
IsHostOrAdmin(u) == HasRole({"HOST", "ADMIN"}, u)

\* ------------------------------------------------------------- responses

Response(op, u, target, code, msg) ==
    [op |-> op, actor |-> u, target |-> target, code |-> code, msg |-> msg]

NoResponse == Response("none", Anon, "", 0, "")

\* ------------------------------------------------------- POST /bookings

BookingIds == 1..Len(bookings)

ActiveStatuses == {"pending", "confirmed"}

\* Overlaps with the half-open comparison: a shared boundary date is no conflict.
OverlapsHalfOpen(b, start, end) == b.startDate < end /\ b.endDate > start

\* Overlaps that lets a request start on the date a booking ends.
OverlapsOpenEnd(b, start, end) == b.startDate <= end /\ b.endDate > start

\* guest.js:414-419  startDate: { lte: end }, endDate: { gte: start }
Overlaps(b, start, end) == b.startDate <= end /\ b.endDate >= start

\* guest.js:410-421  prisma.booking.findMany: the ids of the conflicting rows
ExistingBookings(pid, start, end) ==
    {i \in BookingIds :
        /\ bookings[i].propertyId = pid
        /\ bookings[i].status \in ActiveStatuses
        /\ Overlaps(bookings[i], start, end)}

\* IsOwnProperty comparing the host with the property's id instead of the caller's.
IsOwnPropertyWrongId(u, pid) == properties[pid].hostId = pid

\* guest.js:387  property.hostId === req.user.id
IsOwnProperty(u, pid) == properties[pid].hostId = u

\* BadDateOrder that lets a range of no length through.
BadDateOrderStrict(start, end) == start > end

\* guest.js:397  start >= end
BadDateOrder(start, end) == start >= end

\* StartInPast with the comparison turned round.
StartInPastInverted(start) == start > now

\* guest.js:403  start < new Date()
StartInPast(start) == start < now

CeilDiv(a, b) == (a + b - 1) \div b

Abs(x) == IF x < 0 THEN -x ELSE x

\* Days that drops a started day instead of charging it.
DaysRoundedDown(start, end) ==
    LET days == Abs(end - start) \div HoursPerDay
    IN  IF days = 0 THEN 1 ELSE days

\* guest.js:431-434
Days(start, end) ==
    LET days == CeilDiv(Abs(end - start), HoursPerDay)
    IN  IF days = 0 THEN 1 ELSE days

\* Decimal(10, 2): a quotient of cents rounded to the nearest cent
RoundDiv(a, b) == (2 * a + b) \div (2 * b)

\* TotalPrice that charges every started month and year in full.
TotalPriceWholePeriods(p, start, end) ==
    CASE p.rentalPeriod = "DAY"   -> p.price * Days(start, end)
      [] p.rentalPeriod = "MONTH" -> p.price * CeilDiv(Days(start, end), DaysPerMonth)
      [] p.rentalPeriod = "YEAR"  -> p.price * CeilDiv(Days(start, end), DaysPerYear)
      [] OTHER                    -> p.price

\* guest.js:430-448  totalPrice, in cents
TotalPrice(p, start, end) ==
    CASE p.rentalPeriod = "DAY"   -> p.price * Days(start, end)
      [] p.rentalPeriod = "MONTH" -> RoundDiv(p.price * Days(start, end), DaysPerMonth)
      [] p.rentalPeriod = "YEAR"  -> RoundDiv(p.price * Days(start, end), DaysPerYear)
      [] OTHER                    -> p.price

\* guest.js:365-427  the checks of POST /bookings, in order; 201 when all pass
CreateBookingResponse(u, pid, start, end, gc) ==
    IF ~IsAuthenticated(u) THEN
        Response("create", u, pid, 401, "Unauthorized")
    ELSE IF gc = 0 THEN
        Response("create", u, pid, 400, "All fields are required")
    ELSE IF pid \notin DOMAIN properties THEN
        Response("create", u, pid, 404, "Property not found")
    ELSE IF ~properties[pid].isAvailable THEN
        Response("create", u, pid, 400, "Property is not available")
    ELSE IF IsOwnProperty(u, pid) THEN
        Response("create", u, pid, 400, "You cannot book your own property")
    ELSE IF BadDateOrder(start, end) THEN
        Response("create", u, pid, 400, "End date must be after start date")
    ELSE IF StartInPast(start) THEN
        Response("create", u, pid, 400, "Start date cannot be in the past")
    ELSE IF ExistingBookings(pid, start, end) # {} THEN
        Response("create", u, pid, 400, "Property is already booked for the selected dates")
    ELSE
        Response("create", u, pid, 201, "Booking created successfully")

\* NewBooking that stores the booking as already confirmed and paid.
NewBookingConfirmed(u, pid, start, end, gc) ==
    [propertyId    |-> pid,
     guestId       |-> u,
     startDate     |-> start,
     endDate       |-> end,
     guestCount    |-> gc,
     totalPrice    |-> TotalPrice(properties[pid], start, end),
     status        |-> "confirmed",
     paymentStatus |-> "paid"]

\* guest.js:451-461  the row prisma.booking.create inserts
NewBooking(u, pid, start, end, gc) ==
    [propertyId    |-> pid,
     guestId       |-> u,
     startDate     |-> start,
     endDate       |-> end,
     guestCount    |-> gc,
     totalPrice    |-> TotalPrice(properties[pid], start, end),
     status        |-> "pending",
     paymentStatus |-> "unpaid"]

\* guest.js:365-481  POST /bookings, handled without another request in between
DoCreateBooking(u, pid, start, end, gc) ==
    LET r == CreateBookingResponse(u, pid, start, end, gc)
    IN  /\ r.code = 201 => Len(bookings) < MaxBookings
        /\ bookings' = IF r.code = 201
                       THEN Append(bookings, NewBooking(u, pid, start, end, gc))
                       ELSE bookings
        /\ seen' = IF r.code = 201 THEN Append(seen, Len(bookings)) ELSE seen
        /\ last' = r
        /\ UNCHANGED <<users, images, reviews, properties, now, inflight>>

CreateBooking ==
    \E q \in BookingRequests : DoCreateBooking(q[1], q[2], q[3], q[4], q[5])

\* The well-formed POST /bookings requests of guest g1: the ones that fill
\* the Booking table.
GuestRequests == {q \in BookingRequests : q[1] = "g1" /\ q[3] < q[4] /\ q[5] > 0 /\ q[2] \in PropertyIds}

GuestCreateBooking ==
    \E q \in GuestRequests : DoCreateBooking(q[1], q[2], q[3], q[4], q[5])

\* Guest g1 books a day on either property.
GuestBooksEach ==
    \E pid \in PropertyIds : DoCreateBooking("g1", pid, 24, 48, 1)

\* guest.js:365-427  POST /bookings up to its overlap read: a request that
\* passes every check waits for its insert, another is answered at once
BeginCreateBooking(u, pid, start, end, gc) ==
    LET r == CreateBookingResponse(u, pid, start, end, gc)
    IN  IF r.code = 201
        THEN /\ Len(inflight) < MaxInflight
             /\ Len(bookings) + Len(inflight) < MaxBookings
             /\ inflight' = Append(inflight,
                                [booking |-> NewBooking(u, pid, start, end, gc),
                                 seen    |-> Len(bookings)])
             /\ UNCHANGED <<users, images, reviews, properties, bookings, now, seen, last>>
        ELSE /\ last' = r
             /\ UNCHANGED <<users, images, reviews, properties, bookings, now, inflight, seen>>

BeginCreate ==
    \E q \in GuestRequests : BeginCreateBooking(q[1], q[2], q[3], q[4], q[5])

RemoveAt(s, k) == SubSeq(s, 1, k - 1) \o SubSeq(s, k + 1, Len(s))

\* guest.js:450-476  the insert of a waiting POST /bookings and its response
FinishCreateBooking(k) ==
    LET q == inflight[k]
    IN  /\ bookings' = Append(bookings, q.booking)
        /\ seen' = Append(seen, q.seen)
        /\ inflight' = RemoveAt(inflight, k)
        /\ last' = Response("create", q.booking.guestId, q.booking.propertyId,
                            201, "Booking created successfully")
        /\ UNCHANGED <<users, images, reviews, properties, now>>

FinishCreate ==
    \E k \in 1..Len(inflight) : FinishCreateBooking(k)

\* --------------------------------------------- PUT /bookings/:id/cancel

\* A booking id no row has.
NoBooking == Len(bookings) + 1

\* guest.js:557  booking.guestId !== req.user.id
IsBookingGuest(u, b) == b.guestId = u

\* NotCancellable that turns away only a cancelled booking.
NotCancellableOnlyCancelled(b) == b.status = "cancelled"

\* guest.js:563  booking.status !== "pending" && booking.status !== "confirmed"
NotCancellable(b) == b.status # "pending" /\ b.status # "confirmed"

\* guest.js:572-574  (startDate - now) / (1000 * 60 * 60)
HoursUntilStart(b) == b.startDate - now

\* TooLateToCancel that also turns away a cancel exactly 24 hours ahead.
TooLateInclusive(b) == HoursUntilStart(b) <= CancelLeadHours

\* TooLateToCancel with a lead time one hour short.
TooLateHourShort(b) == HoursUntilStart(b) < CancelLeadHours - 1

\* guest.js:576  hoursUntilStart < 24
TooLateToCancel(b) == HoursUntilStart(b) < CancelLeadHours

\* guest.js:537-581  the checks of PUT /bookings/:id/cancel, in order; 200 when all pass
CancelBookingResponse(u, id) ==
    IF ~IsAuthenticated(u) THEN
        Response("cancel", u, id, 401, "Unauthorized")
    ELSE IF id \notin BookingIds THEN
        Response("cancel", u, id, 404, "Booking not found")
    ELSE IF ~IsBookingGuest(u, bookings[id]) THEN
        Response("cancel", u, id, 403, "Not authorized to cancel this booking")
    ELSE IF NotCancellable(bookings[id]) THEN
        Response("cancel", u, id, 400, "Cannot cancel a booking with status")
    ELSE IF TooLateToCancel(bookings[id]) THEN
        Response("cancel", u, id, 400, "Cancellations must be made at least 24 hours before the booking start date")
    ELSE
        Response("cancel", u, id, 200, "Booking has been cancelled")

\* SetStatus that also prices the booking again at the property's current terms.
SetStatusRepriced(id, status) ==
    [bookings EXCEPT
        ![id].status     = status,
        ![id].totalPrice = TotalPrice(properties[bookings[id].propertyId],
                                      bookings[id].startDate, bookings[id].endDate)]

\* guest.js:584-587  prisma.booking.update({ data: { status } })
SetStatus(id, status) == [bookings EXCEPT ![id].status = status]

\* DoCancelBooking that writes before it checks the lead time.
DoCancelBookingWriteFirst(u, id) ==
    LET r == CancelBookingResponse(u, id)
    IN  /\ bookings' = IF r.code = 200 \/ (r.code = 400 /\ ~NotCancellable(bookings[id]))
                       THEN SetStatus(id, "cancelled")
                       ELSE bookings
        /\ last' = r
        /\ UNCHANGED <<users, images, properties, now, inflight, seen, reviews>>

\* guest.js:537-597  PUT /bookings/:id/cancel
DoCancelBooking(u, id) ==
    LET r == CancelBookingResponse(u, id)
    IN  /\ bookings' = IF r.code = 200 THEN SetStatus(id, "cancelled") ELSE bookings
        /\ last' = r
        /\ UNCHANGED <<users, images, reviews, properties, now, inflight, seen>>

\* guest.js:541-581  the read of a PUT /bookings/:id/cancel and its checks.
\* A request that passes them waits in `inflight` for its write: the
\* handler awaits findUnique, then awaits update, and other requests run in
\* between.
BeginCancelBooking(u, id) ==
    LET r == CancelBookingResponse(u, id)
    IN  IF r.code = 200
        THEN /\ Len(inflight) < MaxInflight
             /\ inflight' = Append(inflight, [op |-> "cancel", actor |-> u, id |-> id])
             /\ UNCHANGED <<users, images, reviews, properties, bookings, now, seen, last>>
        ELSE /\ last' = r
             /\ UNCHANGED <<users, images, reviews, properties, bookings, now, inflight, seen>>

BeginCancel ==
    \/ \E u \in {"g1", "g2"}, id \in BookingIds : BeginCancelBooking(u, id)
    \/ BeginCancelBooking("g1", NoBooking)

\* guest.js:584-592  the write of a waiting PUT /bookings/:id/cancel, by id
\* alone, and its response
FinishCancelBooking(k) ==
    LET q == inflight[k]
    IN  /\ bookings' = SetStatus(q.id, "cancelled")
        /\ inflight' = RemoveAt(inflight, k)
        /\ last' = Response("cancel", q.actor, q.id, 200, "Booking has been cancelled")
        /\ UNCHANGED <<users, images, reviews, properties, now, seen>>

FinishCancel ==
    \E k \in 1..Len(inflight) : FinishCancelBooking(k)

\* The guest of the bookings cancels one.
GuestCancels ==
    \E id \in BookingIds : DoCancelBooking("g1", id)

CancelBooking ==
    \/ \E u \in CancelActors, id \in BookingIds : DoCancelBooking(u, id)
    \/ DoCancelBooking("g1", NoBooking)

\* --------------------------------------------- PUT /bookings/:id/status

\* InvalidStatus that accepts pending as a target.
InvalidStatusAllowsPending(status) ==
    status = "" \/ status \notin {"pending", "confirmed", "cancelled", "completed"}

\* host.js:723-726  !status || !["confirmed", "cancelled", "completed"].includes(status)
InvalidStatus(status) ==
    status = "" \/ status \notin {"confirmed", "cancelled", "completed"}

\* NotHostNorAdmin that lets every HOST and ADMIN through.
NotHostNorAdminSkipped(u, b) == FALSE

\* NotHostNorAdmin without the ADMIN exemption.
NotHostOnly(u, b) == properties[b.propertyId].hostId # u

\* host.js:748-751  booking.property.hostId !== req.user.id && req.user.role !== "ADMIN"
NotHostNorAdmin(u, b) ==
    properties[b.propertyId].hostId # u /\ users[u] # "ADMIN"

\* host.js:714-755  the middleware and checks of PUT /bookings/:id/status, in order
UpdateStatusResponse(u, id, status) ==
    IF IsHostOrAdmin(u) = 401 THEN
        Response("status", u, id, 401, "Unauthorized")
    ELSE IF IsHostOrAdmin(u) = 403 THEN
        Response("status", u, id, 403, "Forbidden: Insufficient permissions")
    ELSE IF InvalidStatus(status) THEN
        Response("status", u, id, 400, "Invalid status")
    ELSE IF id \notin BookingIds THEN
        Response("status", u, id, 404, "Booking not found")
    ELSE IF NotHostNorAdmin(u, bookings[id]) THEN
        Response("status", u, id, 403, "Not authorized to update this booking")
    ELSE
        Response("status", u, id, 200, "Booking has been updated")

\* host.js:714-772  PUT /bookings/:id/status
DoUpdateStatus(u, id, status) ==
    LET r == UpdateStatusResponse(u, id, status)
    IN  /\ bookings' = IF r.code = 200 THEN SetStatus(id, status) ELSE bookings
        /\ last' = r
        /\ UNCHANGED <<users, images, reviews, properties, now, inflight, seen>>

UpdateStatus ==
    \/ \E q \in StatusRequests, id \in BookingIds : DoUpdateStatus(q[1], id, q[2])
    \/ DoUpdateStatus("h1", NoBooking, "confirmed")

\* The admin marks a booking completed.
AdminCompletes ==
    \E id \in BookingIds : DoUpdateStatus("admin", id, "completed")

\* The status updates of the admin, each accepted status on each booking.
AdminUpdateStatus ==
    \E id \in BookingIds, status \in {"confirmed", "cancelled", "completed"} :
        DoUpdateStatus("admin", id, status)

\* ------------------------------------------------- PUT /properties/:id

\* The fields of a PUT /properties/:id body the booking logic reads.  A
\* missing price is 0 (falsy), a missing listingType, rentalPeriod or
\* isAvailable is "undefined", a missing date is NullDate.
PropertyBody(price, listing, period, avail, from, to) ==
    [price         |-> price,
     listingType   |-> listing,
     rentalPeriod  |-> period,
     isAvailable   |-> avail,
     availableFrom |-> from,
     availableTo   |-> to]

\* Bodies that put the property up for sale at another price (the rental
\* period sent along is dropped) and let it by the day again.
SaleBodies ==
    {PropertyBody(20000, "SALE", "DAY", "undefined", NullDate, NullDate),
     PropertyBody(10000, "RENT", "DAY", "undefined", NullDate, NullDate)}

\* Bodies that change how the property is priced: by the month, by the
\* year, for sale, by the day.
PricingBodies ==
    {PropertyBody(10000, "RENT", "MONTH", "undefined", NullDate, NullDate),
     PropertyBody(10000, "RENT", "YEAR", "undefined", NullDate, NullDate)}
    \cup SaleBodies

\* Bodies that change when the property can be booked: a window with both
\* ends, a window with a start only, no window, withdrawn, offered again.
WindowBodies ==
    {PropertyBody(0, "RENT", "DAY", "undefined", 48, 60),
     PropertyBody(0, "RENT", "DAY", "undefined", 48, NullDate),
     PropertyBody(0, "RENT", "DAY", "false", NullDate, NullDate),
     PropertyBody(0, "RENT", "DAY", "true", NullDate, NullDate)}

\* Bodies that leave fields out: a new price alone, and a listing type RENT
\* without a rental period.
PartialBodies ==
    {PropertyBody(20000, "undefined", "undefined", "undefined", NullDate, NullDate),
     PropertyBody(0, "RENT", "undefined", "undefined", NullDate, NullDate)}

\* The PUT /properties/:id requests the model enumerates, <<caller, id,
\* body>>: the host of p1 with every body, the admin, callers and ids that
\* are turned away, and the host of p1 with bodies that leave fields out.
PropertyUpdateRequests ==
    {<<"h1", "p1", b>> : b \in PricingBodies \cup WindowBodies}
    \cup {<<u, "p1", PropertyBody(20000, "SALE", "undefined", "undefined", NullDate, NullDate)>> :
             u \in {Anon, "g1", "h2", "admin"}}
    \cup {<<"h1", NoProperty, PropertyBody(0, "RENT", "DAY", "undefined", NullDate, NullDate)>>}
    \cup {<<"h1", "p1", b>> : b \in PartialBodies}

\* host.js:301-304  existingProperty.hostId !== req.user.id && req.user.role !== "ADMIN"
NotOwnerNorAdmin(u, pid) ==
    properties[pid].hostId # u /\ users[u] # "ADMIN"

\* host.js:259-308  the middleware and checks of PUT /properties/:id, in order
UpdatePropertyResponse(u, pid) ==
    IF IsHostOrAdmin(u) = 401 THEN
        Response("property", u, pid, 401, "Unauthorized")
    ELSE IF IsHostOrAdmin(u) = 403 THEN
        Response("property", u, pid, 403, "Forbidden: Insufficient permissions")
    ELSE IF pid \notin DOMAIN properties THEN
        Response("property", u, pid, 404, "Property not found")
    ELSE IF NotOwnerNorAdmin(u, pid) THEN
        Response("property", u, pid, 403, "Not authorized to update this property")
    ELSE
        Response("property", u, pid, 200, "Property updated successfully")

\* UpdatedProperty that stores the rental period sent along, whatever the
\* listing type.
UpdatedPropertyKeepsPeriod(p, body) ==
    [p EXCEPT
        !.price         = IF body.price # 0 THEN body.price ELSE @,
        !.listingType   = IF body.listingType # "undefined" THEN body.listingType ELSE @,
        !.rentalPeriod  = IF body.rentalPeriod # "undefined" THEN body.rentalPeriod ELSE @,
        !.isAvailable   = IF body.isAvailable # "undefined" THEN body.isAvailable = "true" ELSE @,
        !.availableFrom = body.availableFrom,
        !.availableTo   = body.availableTo]

\* host.js:311-345  the row prisma.property.update leaves: undefined keeps
\* the column, null clears it
UpdatedProperty(p, body) ==
    [p EXCEPT
        !.price         = IF body.price # 0 THEN body.price ELSE @,
        !.listingType   = IF body.listingType # "undefined" THEN body.listingType ELSE @,
        !.rentalPeriod  = IF body.listingType = "RENT"
                          THEN (IF body.rentalPeriod # "undefined" THEN body.rentalPeriod ELSE @)
                          ELSE "null",
        !.isAvailable   = IF body.isAvailable # "undefined" THEN body.isAvailable = "true" ELSE @,
        !.availableFrom = body.availableFrom,
        !.availableTo   = body.availableTo]

\* host.js:259-356  PUT /properties/:id
DoUpdateProperty(u, pid, body) ==
    LET r == UpdatePropertyResponse(u, pid)
    IN  /\ properties' = IF r.code = 200
                         THEN [properties EXCEPT ![pid] = UpdatedProperty(@, body)]
                         ELSE properties
        /\ last' = r
        /\ UNCHANGED <<users, images, reviews, bookings, now, inflight, seen>>

UpdateProperty ==
    \E q \in PropertyUpdateRequests : DoUpdateProperty(q[1], q[2], q[3])

\* The host of p1 changes how it is priced.
HostSetsPricing ==
    \E body \in PricingBodies : DoUpdateProperty("h1", "p1", body)

\* The host of p1 puts it up for sale, or lets it again.
HostSellsOrLets ==
    \E body \in SaleBodies : DoUpdateProperty("h1", "p1", body)

\* The host of p1 changes when it can be booked.
HostSetsWindow ==
    \E body \in WindowBodies : DoUpdateProperty("h1", "p1", body)

\* ------------------------------------------------------ POST /properties

\* The ids new Property rows get.
NewPropertyIds == {"p3"}

\* The POST /properties requests the model enumerates, <<caller, body>>: a
\* host with a rental by the day, a sale with a rental period sent along, a
\* rental without a rental period, a body without a price, a listing type
\* the schema does not have; a guest; nobody.  The other required fields
\* (title, description, address, city, country) are present in each.
PropertyCreateRequests ==
    {<<"h2", PropertyBody(10000, "RENT", "DAY", "undefined", NullDate, NullDate)>>,
     <<"h2", PropertyBody(20000, "SALE", "MONTH", "undefined", 48, 60)>>,
     <<"h2", PropertyBody(10000, "RENT", "undefined", "undefined", NullDate, NullDate)>>,
     <<"h2", PropertyBody(0, "RENT", "DAY", "undefined", NullDate, NullDate)>>,
     <<"h2", PropertyBody(10000, "LEASE", "DAY", "undefined", NullDate, NullDate)>>,
     <<"g1", PropertyBody(10000, "RENT", "DAY", "undefined", NullDate, NullDate)>>,
     <<Anon, PropertyBody(10000, "RENT", "DAY", "undefined", NullDate, NullDate)>>}

\* host.js:177-187  !price || !listingType (the fields the model keeps)
RequiredFieldsMissing(body) == body.price = 0 \/ body.listingType = "undefined"

\* host.js:189  listingType === "RENT" && !rentalPeriod
RentalPeriodMissing(body) ==
    body.listingType = "RENT" /\ body.rentalPeriod = "undefined"

\* schema.prisma:92-101  enum ListingType, enum RentalPeriod: prisma.property.create
\* throws on a value outside them
NotInSchema(body) ==
    \/ body.listingType \notin {"RENT", "SALE"}
    \/ body.listingType = "RENT" /\ body.rentalPeriod \notin {"DAY", "MONTH", "YEAR"}

\* host.js:146-193, 251-254  the middleware and checks of POST /properties, in order
CreatePropertyResponse(u, pid, body) ==
    IF IsHostOrAdmin(u) = 401 THEN
        Response("newproperty", u, pid, 401, "Unauthorized")
    ELSE IF IsHostOrAdmin(u) = 403 THEN
        Response("newproperty", u, pid, 403, "Forbidden: Insufficient permissions")
    ELSE IF RequiredFieldsMissing(body) THEN
        Response("newproperty", u, pid, 400, "Required fields missing")
    ELSE IF RentalPeriodMissing(body) THEN
        Response("newproperty", u, pid, 400, "Rental period is required for rentals")
    ELSE IF NotInSchema(body) THEN
        Response("newproperty", u, pid, 500, "Server error")
    ELSE
        Response("newproperty", u, pid, 201, "Property created successfully")

\* host.js:211-245  the row prisma.property.create inserts
NewProperty(u, body) ==
    [hostId        |-> u,
     price         |-> body.price,
     listingType   |-> body.listingType,
     rentalPeriod  |-> IF body.listingType = "RENT" THEN body.rentalPeriod ELSE "null",
     isAvailable   |-> TRUE,
     availableFrom |-> body.availableFrom,
     availableTo   |-> body.availableTo]

\* host.js:146-256  POST /properties; pid is the id the new row gets
DoCreateProperty(u, pid, body) ==
    LET r == CreatePropertyResponse(u, pid, body)
    IN  /\ properties' = IF r.code = 201
                         THEN [p \in DOMAIN properties \cup {pid} |->
                                  IF p = pid THEN NewProperty(u, body) ELSE properties[p]]
                         ELSE properties
        /\ last' = r
        /\ UNCHANGED <<users, images, reviews, bookings, now, inflight, seen>>

CreateProperty ==
    \E q \in PropertyCreateRequests, pid \in NewPropertyIds \ DOMAIN properties :
        DoCreateProperty(q[1], pid, q[2])

\* ----------------------------------- GET /properties/:id/availability

\* The GET /properties/:id/availability requests the model enumerates,
\* <<id, startDate, endDate>>: every range on p1, one on p2, a range given
\* end first (the route does not compare the two dates), an id no row has,
\* a request without startDate.  The route is public; the caller is Anon.
AvailabilityRequests ==
    {<<"p1", r[1], r[2]>> : r \in DateRanges}
    \cup {<<"p2", 24, 48>>, <<"p1", 48, 24>>, <<NoProperty, 24, 48>>, <<"p1", NullDate, 48>>}

\* The body of an answered availability check, res.json({ available,
\* message, conflictingDates }): conflicts holds the <<startDate, endDate>>
\* of the bookings in ids.
AvailabilityAnswer(pid, available, msg, ids) ==
    [op |-> "availability", actor |-> Anon, target |-> pid, code |-> 200,
     msg |-> msg, available |-> available,
     conflicts |-> {<<bookings[i].startDate, bookings[i].endDate>> : i \in ids}]

\* guest.js:312  property.availableFrom && start < property.availableFrom
BeforeAvailableFrom(p, start) ==
    p.availableFrom # NullDate /\ start < p.availableFrom

\* guest.js:321  property.availableTo && end > property.availableTo
AfterAvailableTo(p, end) ==
    p.availableTo # NullDate /\ end > p.availableTo

\* AvailabilityConflicts that looks at every status.
AvailabilityConflictsAnyStatus(pid, start, end) ==
    {i \in BookingIds :
        /\ bookings[i].propertyId = pid
        /\ Overlaps(bookings[i], start, end)}

\* guest.js:331-342  prisma.booking.findMany: the ids of the conflicting rows
AvailabilityConflicts(pid, start, end) ==
    {i \in BookingIds :
        /\ bookings[i].propertyId = pid
        /\ bookings[i].status \in {"pending", "confirmed"}
        /\ Overlaps(bookings[i], start, end)}

\* guest.js:276-355  the checks of GET /properties/:id/availability, in order
CheckAvailabilityResponse(pid, start, end) ==
    IF start = NullDate \/ end = NullDate THEN
        Response("availability", Anon, pid, 400, "Start and end dates are required")
    ELSE IF pid \notin DOMAIN properties THEN
        Response("availability", Anon, pid, 404, "Property not found")
    ELSE IF ~properties[pid].isAvailable THEN
        AvailabilityAnswer(pid, FALSE, "Property is not available", {})
    ELSE IF BeforeAvailableFrom(properties[pid], start) THEN
        AvailabilityAnswer(pid, FALSE, "Property is only available from", {})
    ELSE IF AfterAvailableTo(properties[pid], end) THEN
        AvailabilityAnswer(pid, FALSE, "Property is only available until", {})
    ELSE IF AvailabilityConflicts(pid, start, end) # {} THEN
        AvailabilityAnswer(pid, FALSE, "Property is already booked for the selected dates",
                           AvailabilityConflicts(pid, start, end))
    ELSE
        AvailabilityAnswer(pid, TRUE, "", {})

\* guest.js:276-360  GET /properties/:id/availability: it writes nothing
DoCheckAvailability(pid, start, end) ==
    /\ last' = CheckAvailabilityResponse(pid, start, end)
    /\ UNCHANGED <<users, images, reviews, properties, bookings, now, inflight, seen>>

CheckAvailability ==
    \E q \in AvailabilityRequests : DoCheckAvailability(q[1], q[2], q[3])

\* --------------------------------------------------------- POST /reviews

\* A booking id missing from a request body (falsy).
NoId == 0

\* A rating arrives in the JSON body as a number or a string; the model
\* writes it as its text, a sequence of characters, <<>> when it is missing.
\* The handler converts it twice: to a number for the comparisons of
\* guest.js:610 and with parseInt for the row of guest.js:660.

Digits == {"0", "1", "2", "3", "4", "5", "6", "7", "8", "9"}

DigitValue(c) ==
    CASE c = "0" -> 0 [] c = "1" -> 1 [] c = "2" -> 2 [] c = "3" -> 3 [] c = "4" -> 4
      [] c = "5" -> 5 [] c = "6" -> 6 [] c = "7" -> 7 [] c = "8" -> 8 [] c = "9" -> 9

\* The value no number equals: <<>>.  A number n is <<n>>.
NaN == <<>>

\* The value of a sequence of digits.
RECURSIVE DigitsValue(_)
DigitsValue(ds) ==
    IF ds = <<>> THEN 0
    ELSE 10 * DigitsValue(SubSeq(ds, 1, Len(ds) - 1)) + DigitValue(ds[Len(ds)])

\* The length of the longest prefix of s made of digits.
RECURSIVE DigitsPrefix(_)
DigitsPrefix(s) ==
    IF s # <<>> /\ s[1] \in Digits THEN 1 + DigitsPrefix(Tail(s)) ELSE 0

\* ECMAScript parseInt(text, 10): an optional sign and the longest run of
\* digits after it, whatever follows; NaN when there is no digit.
ParseInt(s) ==
    LET neg  == s # <<>> /\ s[1] = "-"
        body == IF neg THEN Tail(s) ELSE s
        d    == DigitsPrefix(body)
        v    == DigitsValue(SubSeq(body, 1, d))
    IN  IF d = 0 THEN NaN ELSE <<IF neg THEN -v ELSE v>>

\* ECMAScript ToNumber of the texts the model enumerates, times ten: an
\* optional sign, digits and at most one decimal, nothing else; NaN when
\* the text has any other shape.
ToNumberTimesTen(s) ==
    LET neg  == s # <<>> /\ s[1] = "-"
        body == IF neg THEN Tail(s) ELSE s
        d    == DigitsPrefix(body)
        rest == SubSeq(body, d + 1, Len(body))
        v    == 10 * DigitsValue(SubSeq(body, 1, d))
        w    == IF rest = <<>> THEN <<v>>
                ELSE IF Len(rest) = 2 /\ rest[1] = "." /\ rest[2] \in Digits
                     THEN <<v + DigitValue(rest[2])>>
                     ELSE NaN
    IN  IF d = 0 \/ w = NaN THEN NaN ELSE <<IF neg THEN -w[1] ELSE w[1]>>

\* Ratings that are whole numbers from 1 to 5.
GoodRatings == {<<"3">>, <<"5">>}

\* Ratings that are not: none, one too large, one too small, one with a
\* fraction, numbers followed by a letter, a letter.
BadRatings ==
    {<<>>, <<"6">>, <<"0">>, <<"4", ".", "5">>, <<"5", "x">>, <<"9", "x">>, <<"x">>}

\* The two conversions of every rating the model enumerates.
RatingAsNumber == [r \in GoodRatings \cup BadRatings |-> ToNumberTimesTen(r)]

RatingAsInt == [r \in GoodRatings \cup BadRatings |-> ParseInt(r)]

\* The POST /reviews requests the model enumerates for a booking id,
\* <<caller, propertyId, rating>>: the guest of the bookings and another
\* guest on each property, the guest with no rating and with one too large,
\* no property id, nobody.
ReviewRequests ==
    {<<u, pid, <<"3">>>> : u \in {"g1", "g2"}, pid \in PropertyIds}
    \cup {<<"g1", "p1", <<>>>>, <<"g1", "p1", <<"6">>>>}
    \cup {<<"g1", "", <<"3">>>>, <<Anon, "p1", <<"3">>>>}

\* guest.js:604  !bookingId || !propertyId || !rating
ReviewFieldMissing(id, pid, rating) == id = NoId \/ pid = "" \/ rating = <<>>

\* guest.js:610  rating < 1 || rating > 5: a comparison with NaN is false
RatingOutOfRange(rating) ==
    LET n == RatingAsNumber[rating]
    IN  n # NaN /\ (n[1] < 10 \/ n[1] > 50)

\* guest.js:660  parseInt(rating) is NaN: prisma.review.create throws
RatingNotStorable(rating) == RatingAsInt[rating] = NaN

\* guest.js:631  booking.propertyId !== parseInt(propertyId)
PropertyMismatch(b, pid) == b.propertyId # pid

\* NotCompleted that lets a confirmed booking be reviewed.
NotCompletedNorConfirmed(b) == b.status \notin {"completed", "confirmed"}

\* guest.js:637  booking.status !== "completed"
NotCompleted(b) == b.status # "completed"

\* ExistingReview that finds nothing.
ExistingReviewSkipped(id) == {}

\* guest.js:644-646  prisma.review.findUnique({ where: { bookingId } })
ExistingReview(id) == {r \in reviews : r.bookingId = id}

\* guest.js:600-680  the checks of POST /reviews, in order; 201 when all pass
AddReviewResponse(u, id, pid, rating) ==
    IF ~IsAuthenticated(u) THEN
        Response("review", u, id, 401, "Unauthorized")
    ELSE IF ReviewFieldMissing(id, pid, rating) THEN
        Response("review", u, id, 400, "Booking ID, property ID, and rating are required")
    ELSE IF RatingOutOfRange(rating) THEN
        Response("review", u, id, 400, "Rating must be between 1 and 5")
    ELSE IF id \notin BookingIds THEN
        Response("review", u, id, 404, "Booking not found")
    ELSE IF ~IsBookingGuest(u, bookings[id]) THEN
        Response("review", u, id, 403, "Not authorized to review this booking")
    ELSE IF PropertyMismatch(bookings[id], pid) THEN
        Response("review", u, id, 400, "Booking and property do not match")
    ELSE IF NotCompleted(bookings[id]) THEN
        Response("review", u, id, 400, "Can only review completed bookings")
    ELSE IF ExistingReview(id) # {} THEN
        Response("review", u, id, 400, "Review already exists for this booking")
    ELSE IF RatingNotStorable(rating) THEN
        Response("review", u, id, 500, "Server error")
    ELSE
        Response("review", u, id, 201, "Review submitted successfully")

\* guest.js:655-662  the row prisma.review.create inserts
NewReview(u, id, pid, rating) ==
    [bookingId |-> id, propertyId |-> pid, userId |-> u, rating |-> RatingAsInt[rating][1]]

\* guest.js:600-682  POST /reviews
DoAddReview(u, id, pid, rating) ==
    LET r == AddReviewResponse(u, id, pid, rating)
    IN  /\ reviews' = IF r.code = 201
                      THEN reviews \cup {NewReview(u, id, pid, rating)}
                      ELSE reviews
        /\ last' = r
        /\ UNCHANGED <<users, images, properties, bookings, now, inflight, seen>>

\* Every request of ReviewRequests on every booking, on a booking id no row
\* has, and without a booking id.
AddReview ==
    \/ \E id \in BookingIds, q \in ReviewRequests : DoAddReview(q[1], id, q[2], q[3])
    \/ DoAddReview("g1", NoBooking, "p1", <<"3">>)
    \/ DoAddReview("g1", NoId, "p1", <<"3">>)

\* The guest of the bookings reviews one, naming its property, with every
\* rating.
RateBooking ==
    \E id \in BookingIds, r \in GoodRatings \cup BadRatings :
        DoAddReview("g1", id, bookings[id].propertyId, r)

\* The guest of the bookings reviews one, naming its property.
GuestAddsReview ==
    \E id \in BookingIds : DoAddReview("g1", id, bookings[id].propertyId, <<"3">>)

\* ------------------------------- POST /register, PUT /users/:id/role

\* schema.prisma:  enum UserRole
Roles == {"ADMIN", "HOST", "GUEST"}

\* The e-mail addresses registrations carry.  email is @unique and the
\* model names a user by it: one is the address of guest g1, two are new.
Emails == {"g1", "n1", "n2"}

LowerCase ==
    {"a", "b", "c", "d", "e", "f", "g", "h", "i", "j", "k", "l", "m",
     "n", "o", "p", "q", "r", "s", "t", "u", "v", "w", "x", "y", "z"}

UpperCase ==
    {"A", "B", "C", "D", "E", "F", "G", "H", "I", "J", "K", "L", "M",
     "N", "O", "P", "Q", "R", "S", "T", "U", "V", "W", "X", "Y", "Z"}

Special == {"@", "$", "!", "%", "*", "?", "&"}

\* auth.js:11-12  passwordRegex.test(password): a lower-case letter, an
\* upper-case letter, a digit and a special character, eight characters or
\* more, all of them of these four kinds
PasswordRegexTest(password) ==
    /\ \E i \in DOMAIN password : password[i] \in LowerCase
    /\ \E i \in DOMAIN password : password[i] \in UpperCase
    /\ \E i \in DOMAIN password : password[i] \in Digits
    /\ \E i \in DOMAIN password : password[i] \in Special
    /\ \A i \in DOMAIN password :
           password[i] \in LowerCase \cup UpperCase \cup Digits \cup Special
    /\ Len(password) >= 8

\* The passwords registrations carry, as their characters: none, one the
\* pattern refuses and one it accepts.
Passwords ==
    {<<>>,
     <<"p", "a", "s", "s", "w", "o", "r", "d">>,
     <<"P", "a", "s", "s", "w", "0", "r", "d", "!">>}

\* The role field of the request bodies: a missing field is "undefined".
BodyRoles == Roles \cup {"undefined", "SUPER"}

\* auth.js:14-38  the checks of POST /register, in order; the empty password
\* is the required field a body lacks.  The route has no middleware: the
\* caller is anyone.
RegisterResponse(email, password) ==
    IF password = <<>> THEN
        Response("register", Anon, email, 400, "All fields are required")
    ELSE IF ~PasswordRegexTest(password) THEN
        Response("register", Anon, email, 400, "Password must be at least 8 characters and include uppercase, lowercase, number and special character")
    ELSE IF email \in DOMAIN users THEN
        Response("register", Anon, email, 409, "Email already exists")
    ELSE
        Response("register", Anon, email, 201, "User created successfully")

\* auth.js:16, 41  role = "GUEST" when the body has none, then
\* ["ADMIN", "HOST", "GUEST"].includes(role) ? role : "GUEST"
UserRole(role) ==
    LET given == IF role = "undefined" THEN "GUEST" ELSE role
    IN  IF given \in Roles THEN given ELSE "GUEST"

\* auth.js:14-74  POST /register; req.login makes the new user a caller
DoRegister(email, password, role) ==
    LET r == RegisterResponse(email, password)
    IN  /\ users' = IF r.code = 201
                    THEN [u \in DOMAIN users \cup {email} |->
                             IF u = email THEN UserRole(role) ELSE users[u]]
                    ELSE users
        /\ last' = r
        /\ UNCHANGED <<images, properties, bookings, now, inflight, seen, reviews>>

Register ==
    \E email \in Emails, password \in Passwords, role \in BodyRoles :
        DoRegister(email, password, role)

\* admin.js:9  isAdmin
IsAdmin(u) == HasRole({"ADMIN"}, u)

\* The PUT /users/:id/role requests, <<caller, id, role>>: the seeded admin
\* and the registered n1 on g1 and on n1 with each role, with no role ("")
\* and with one the enum lacks, on an id no user has, and callers the
\* middleware turns away.
RoleRequests ==
    {<<u, id, role>> : u \in {"admin", "n1"}, id \in {"g1", "n1"}, role \in Roles}
    \cup {<<"admin", "g1", "">>, <<"admin", "g1", "SUPER">>, <<"admin", "n9", "HOST">>,
          <<"h1", "g1", "ADMIN">>, <<Anon, "g1", "ADMIN">>}

\* admin.js:607-635  the middleware and checks of PUT /users/:id/role, in
\* order; prisma.user.update throws for an id no row has
UpdateRoleResponse(u, id, role) ==
    IF IsAdmin(u) = 401 THEN
        Response("role", u, id, 401, "Unauthorized")
    ELSE IF IsAdmin(u) = 403 THEN
        Response("role", u, id, 403, "Forbidden: Insufficient permissions")
    ELSE IF role = "" \/ role \notin Roles THEN
        Response("role", u, id, 400, "Valid role is required")
    ELSE IF id \notin DOMAIN users THEN
        Response("role", u, id, 500, "Server error")
    ELSE
        Response("role", u, id, 200, "User role updated successfully")

\* admin.js:607-637  PUT /users/:id/role
DoUpdateRole(u, id, role) ==
    LET r == UpdateRoleResponse(u, id, role)
    IN  /\ users' = IF r.code = 200 THEN [users EXCEPT ![id] = role] ELSE users
        /\ last' = r
        /\ UNCHANGED <<images, properties, bookings, now, inflight, seen, reviews>>

UpdateRole ==
    \E q \in RoleRequests : DoUpdateRole(q[1], q[2], q[3])

\* ------------------------------------------------------ property images

ImageIds == 1..Len(images)

\* An image id no row has.
NoImage == Len(images) + 1

\* The PropertyImage rows of a property, by id.
ImagesOf(pid) ==
    {i \in ImageIds : ~images[i].deleted /\ images[i].propertyId = pid}

FeaturedOf(pid) == {i \in ImagesOf(pid) : images[i].isFeatured}

\* host.js:464-466  prisma.propertyImage.count({ where: { propertyId } })
CurrentImagesCount(pid) == Cardinality(ImagesOf(pid))

\* The response of an image route; image is the :imageId of the request,
\* NoId for an upload.
ImageAnswer(op, u, pid, iid, code, msg) ==
    [op |-> op, actor |-> u, target |-> pid, code |-> code, msg |-> msg,
     image |-> iid]

\* The callers of the image routes, <<caller, propertyId>>: the two hosts on
\* their own property, host h1 on the property of h2, the admin, a guest, an
\* unauthenticated caller and a property id no row has.
ImageCallers ==
    {<<"h1", "p1">>, <<"h2", "p2">>, <<"h1", "p2">>, <<"admin", "p2">>,
     <<"g1", "p1">>, <<Anon, "p1">>, <<"h1", NoProperty>>}

\* host.js:433-472  the middleware and checks of POST /properties/:id/images,
\* in order; files is req.files.length
UploadImagesResponse(u, pid, files) ==
    IF IsHostOrAdmin(u) = 401 THEN
        ImageAnswer("upload", u, pid, NoId, 401, "Unauthorized")
    ELSE IF IsHostOrAdmin(u) = 403 THEN
        ImageAnswer("upload", u, pid, NoId, 403, "Forbidden: Insufficient permissions")
    ELSE IF pid \notin DOMAIN properties THEN
        ImageAnswer("upload", u, pid, NoId, 404, "Property not found")
    ELSE IF NotOwnerNorAdmin(u, pid) THEN
        ImageAnswer("upload", u, pid, NoId, 403, "Not authorized to update this property")
    ELSE IF files = 0 THEN
        ImageAnswer("upload", u, pid, NoId, 400, "No images uploaded")
    ELSE IF CurrentImagesCount(pid) + files > MaxImagesPerProperty THEN
        ImageAnswer("upload", u, pid, NoId, 400, "Maximum of 20 images allowed per property")
    ELSE
        ImageAnswer("upload", u, pid, NoId, 201, "Images uploaded successfully")

\* host.js:476-481  isFeatured === "true", or the first image of the property
ShouldSetFeatured(pid, isFeatured) ==
    isFeatured = "true" \/ CurrentImagesCount(pid) = 0

\* host.js:484-490, 629-635  updateMany({ where: { propertyId, isFeatured:
\* true }, data: { isFeatured: false } })
UnsetFeatured(rows, pid) ==
    [i \in DOMAIN rows |->
        IF ~rows[i].deleted /\ rows[i].propertyId = pid
        THEN [rows[i] EXCEPT !.isFeatured = FALSE]
        ELSE rows[i]]

\* host.js:494-504  one row per file, the first featured if requested
NewImages(pid, files, featured) ==
    [k \in 1..files |->
        [propertyId |-> pid, isFeatured |-> featured /\ k = 1, deleted |-> FALSE]]

\* host.js:433-518  POST /properties/:id/images
DoUploadImages(u, pid, files, isFeatured) ==
    LET r == UploadImagesResponse(u, pid, files)
    IN  /\ r.code = 201 => Len(images) + files <= MaxImages
        /\ images' = IF r.code # 201 THEN images
                     ELSE (IF ShouldSetFeatured(pid, isFeatured)
                           THEN UnsetFeatured(images, pid)
                           ELSE images)
                          \o NewImages(pid, files, ShouldSetFeatured(pid, isFeatured))
        /\ last' = r
        /\ UNCHANGED <<users, properties, bookings, now, inflight, seen, reviews>>

UploadImages ==
    \E q \in ImageCallers, files \in 0..2, isFeatured \in {"true", "undefined"} :
        DoUploadImages(q[1], q[2], files, isFeatured)

\* host.js:545-548  findUnique({ where: { id: parseInt(imageId) } }): the
\* image is looked up by its id alone
ImageFound(iid) == iid \in ImageIds /\ ~images[iid].deleted

\* host.js:521-552  the middleware and checks of DELETE
\* /properties/:propertyId/images/:imageId, in order
DeleteImageResponse(u, pid, iid) ==
    IF IsHostOrAdmin(u) = 401 THEN
        ImageAnswer("deleteimage", u, pid, iid, 401, "Unauthorized")
    ELSE IF IsHostOrAdmin(u) = 403 THEN
        ImageAnswer("deleteimage", u, pid, iid, 403, "Forbidden: Insufficient permissions")
    ELSE IF pid \notin DOMAIN properties THEN
        ImageAnswer("deleteimage", u, pid, iid, 404, "Property not found")
    ELSE IF NotOwnerNorAdmin(u, pid) THEN
        ImageAnswer("deleteimage", u, pid, iid, 403, "Not authorized to update this property")
    ELSE IF ~ImageFound(iid) THEN
        ImageAnswer("deleteimage", u, pid, iid, 404, "Image not found")
    ELSE
        ImageAnswer("deleteimage", u, pid, iid, 200, "Image deleted successfully")

\* host.js:521-589  DELETE /properties/:propertyId/images/:imageId.  When
\* the deleted row was featured, findFirst({ where: { propertyId } }) has no
\* orderBy: any remaining row of the property named in the request may be
\* the one it returns.
DoDeleteImage(u, pid, iid) ==
    LET r == DeleteImageResponse(u, pid, iid)
        removed == [images EXCEPT ![iid].deleted = TRUE]
        others == {i \in ImageIds : i # iid /\ ~images[i].deleted
                                           /\ images[i].propertyId = pid}
    IN  /\ IF r.code # 200 THEN images' = images
           ELSE IF images[iid].isFeatured /\ others # {}
           THEN \E anotherImage \in others :
                    images' = [removed EXCEPT ![anotherImage].isFeatured = TRUE]
           ELSE images' = removed
        /\ last' = r
        /\ UNCHANGED <<users, properties, bookings, now, inflight, seen, reviews>>

DeleteImage ==
    \E q \in ImageCallers, iid \in ImageIds \cup {NoImage} :
        DoDeleteImage(q[1], q[2], iid)

\* host.js:592-626  the middleware and checks of PUT
\* /properties/:propertyId/images/:imageId/featured, in order; the image is
\* looked up by its id and the property id together (host.js:615-620)
SetFeaturedResponse(u, pid, iid) ==
    IF IsHostOrAdmin(u) = 401 THEN
        ImageAnswer("featured", u, pid, iid, 401, "Unauthorized")
    ELSE IF IsHostOrAdmin(u) = 403 THEN
        ImageAnswer("featured", u, pid, iid, 403, "Forbidden: Insufficient permissions")
    ELSE IF pid \notin DOMAIN properties THEN
        ImageAnswer("featured", u, pid, iid, 404, "Property not found")
    ELSE IF NotOwnerNorAdmin(u, pid) THEN
        ImageAnswer("featured", u, pid, iid, 403, "Not authorized to update this property")
    ELSE IF iid \notin ImagesOf(pid) THEN
        ImageAnswer("featured", u, pid, iid, 404, "Image not found")
    ELSE
        ImageAnswer("featured", u, pid, iid, 200, "Featured image updated successfully")

\* host.js:592-649  PUT /properties/:propertyId/images/:imageId/featured
DoSetFeatured(u, pid, iid) ==
    LET r == SetFeaturedResponse(u, pid, iid)
    IN  /\ images' = IF r.code = 200
                     THEN [UnsetFeatured(images, pid) EXCEPT ![iid].isFeatured = TRUE]
                     ELSE images
        /\ last' = r
        /\ UNCHANGED <<users, properties, bookings, now, inflight, seen, reviews>>

SetFeatured ==
    \E q \in ImageCallers, iid \in ImageIds \cup {NoImage} :
        DoSetFeatured(q[1], q[2], iid)

\* ------------------------------------------------------------------ Init

Property(host, price, listing, period) ==
    [hostId        |-> host,
     price         |-> price,
     listingType   |-> listing,
     rentalPeriod  |-> period,
     isAvailable   |-> TRUE,
     availableFrom |-> NullDate,
     availableTo   |-> NullDate]

Init ==
    /\ users = [u \in UserIds |->
                  CASE u = "admin"        -> "ADMIN"
                    [] u \in {"h1", "h2"} -> "HOST"
                    [] OTHER              -> "GUEST"]
    /\ properties = [p \in PropertyIds |->
                       IF p = "p1"
                       THEN Property("h1", 10000, "RENT", "DAY")
                       ELSE Property("h2", 30000, "RENT", "MONTH")]
    /\ bookings = <<>>
    /\ now = 0
    /\ inflight = <<>>
    /\ seen = <<>>
    /\ reviews = {}
    /\ images = <<>>
    /\ last = NoResponse

\* The clock moves on.
Tick ==
    /\ \E t \in Instants : t > now /\ now' = t
    /\ UNCHANGED <<users, images, reviews, properties, bookings, inflight, seen, last>>

Next ==
    \/ CreateBooking
    \/ CancelBooking
    \/ UpdateStatus
    \/ Tick

\* Every request the model enumerates, handled one at a time.
Spec == Init /\ [][Next]_vars

\* The specifications below fill the Booking table as Spec does (the guest's
\* well-formed bookings, every status through the admin's updates, the
\* clock) and enumerate the requests of one route in full.

NextCreate ==
    \/ CreateBooking
    \/ AdminUpdateStatus
    \/ Tick

\* POST /bookings in full.
SpecCreate == Init /\ [][NextCreate]_vars

NextCancel ==
    \/ GuestCreateBooking
    \/ CancelBooking
    \/ AdminUpdateStatus
    \/ Tick

\* PUT /bookings/:id/cancel in full.
SpecCancel == Init /\ [][NextCancel]_vars

NextStatus ==
    \/ GuestCreateBooking
    \/ UpdateStatus
    \/ Tick

\* PUT /bookings/:id/status in full.
SpecStatus == Init /\ [][NextStatus]_vars

\* POST /bookings awaits the database between its overlap read and its
\* insert; other POST /bookings and PUT /bookings/:id/status requests run in
\* between.
NextRace ==
    \/ BeginCreate
    \/ FinishCreate
    \/ AdminUpdateStatus

SpecRace == Init /\ [][NextRace]_vars

\* The ranges priced requests carry, in hours, no two of them sharing a
\* date: a day, two days and thirteen hours, three days, half a day.
PriceRanges == {<<24, 48>>, <<60, 121>>, <<130, 202>>, <<205, 217>>}

\* 45 days, in hours.
FortyFiveDays == 45 * HoursPerDay

\* The priced POST /bookings requests: guest g1 on p1 over each range of
\* PriceRanges and on p2 over 45 days.
PriceRequests ==
    {<<"g1", "p1", r[1], r[2], 1>> : r \in PriceRanges}
    \cup {<<"g1", "p2", 24, 24 + FortyFiveDays, 1>>}

PriceCreateBooking ==
    \E q \in PriceRequests : DoCreateBooking(q[1], q[2], q[3], q[4], q[5])

NextPrice ==
    \/ PriceCreateBooking
    \/ HostSetsPricing

\* The price computation of POST /bookings under every pricing of p1.
SpecPrice == Init /\ [][NextPrice]_vars

NextAvail ==
    \/ GuestCreateBooking
    \/ HostSetsWindow
    \/ CheckAvailability
    \/ AdminUpdateStatus

\* GET /properties/:id/availability in full, beside POST /bookings, under
\* every availability window of p1.
SpecAvail == Init /\ [][NextAvail]_vars

NextReview ==
    \/ GuestBooksEach
    \/ AdminUpdateStatus
    \/ AddReview

\* POST /reviews in full.
SpecReview == Init /\ [][NextReview]_vars

\* The guest counts requests carry: a negative one, none (0, falsy), one, two.
GuestCounts == {-1, 0, 1, 2}

\* Guest g1 books p1 over each range of PriceRanges with each guest count.
CountCreateBooking ==
    \E r \in PriceRanges, gc \in GuestCounts : DoCreateBooking("g1", "p1", r[1], r[2], gc)

NextGuests ==
    \/ CountCreateBooking
    \/ GuestCancels

\* POST /bookings with every guest count.
SpecGuests == Init /\ [][NextGuests]_vars

NextProperty ==
    \/ CreateProperty
    \/ UpdateProperty

\* POST /properties and PUT /properties/:id in full.
SpecProperty == Init /\ [][NextProperty]_vars

NextAccept ==
    \/ GuestBooksEach
    \/ UpdateStatus

\* PUT /bookings/:id/status in full on bookings of both hosts.
SpecAccept == Init /\ [][NextAccept]_vars

\* One POST /bookings request for each answer of the route: a day on p1 by
\* guest g1 (created, or refused for an overlap or a start in the past), and
\* requests refused for their range, their caller, a missing field and an
\* unknown property.
AnswerRequests ==
    {<<"g1", "p1", 24, 48, 1>>, <<"g1", "p1", 48, 24, 1>>, <<"h1", "p1", 24, 48, 1>>,
     <<Anon, "p1", 24, 48, 1>>, <<"g1", "p1", 24, 48, 0>>, <<"g1", NoProperty, 24, 48, 1>>}

CreateOrRefuse ==
    \E q \in AnswerRequests : DoCreateBooking(q[1], q[2], q[3], q[4], q[5])

NextErrors ==
    \/ CreateOrRefuse
    \/ CancelBooking
    \/ UpdateStatus
    \/ AddReview
    \/ Tick

\* The four routes that write bookings and reviews, with every answer of
\* each.
SpecErrors == Init /\ [][NextErrors]_vars

NextCancelRace ==
    \/ GuestBooksEach
    \/ BeginCancel
    \/ FinishCancel
    \/ AdminUpdateStatus

\* PUT /bookings/:id/cancel as its read and its write, interleaved with the
\* status updates of the admin.
SpecCancelRace == Init /\ [][NextCancelRace]_vars

NextImages ==
    \/ UploadImages
    \/ DeleteImage
    \/ SetFeatured

\* The three image routes.
SpecImages == Init /\ [][NextImages]_vars

NextRoles ==
    \/ Register
    \/ UpdateRole

\* Registration and the role update of the admin.
SpecRoles == Init /\ [][NextRoles]_vars

NextRating ==
    \/ GuestBooksEach
    \/ AdminCompletes
    \/ RateBooking

\* POST /reviews by the booking's guest with every rating.
SpecRating == Init /\ [][NextRating]_vars

NextFrame ==
    \/ GuestCreateBooking
    \/ GuestCancels
    \/ AdminCompletes
    \/ GuestAddsReview
    \/ HostSellsOrLets

\* Every route that writes after a booking was created: the guest's cancel,
\* the status update, the review, the property update.
SpecFrame == Init /\ [][NextFrame]_vars

\* ---------------------------------------------------------------- claims

Terminal == {"cancelled", "completed"}

\* Two rows overlap when each starts no later than the other ends.
RowsOverlap(b1, b2) == b1.startDate <= b2.endDate /\ b1.endDate >= b2.startDate

HostOf(b) == properties[b.propertyId].hostId

\* C1: no two distinct bookings of one property that are both pending or
\* confirmed overlap, after any sequence of creations, cancellations and
\* status updates.
C1_NoActiveOverlap ==
    \A i \in BookingIds, j \in BookingIds :
        ( /\ i # j
          /\ bookings[i].propertyId = bookings[j].propertyId
          /\ bookings[i].status \in ActiveStatuses
          /\ bookings[j].status \in ActiveStatuses )
        => ~RowsOverlap(bookings[i], bookings[j])

\* C2: two overlapping pending bookings of one property come about only by
\* the race: the later one's overlap read ran before the earlier one's
\* insert, so both requests passed the check and both inserted.
C2_PendingOverlapOnlyByRace ==
    \A i \in BookingIds, j \in BookingIds :
        ( /\ i < j
          /\ bookings[i].propertyId = bookings[j].propertyId
          /\ bookings[i].status = "pending"
          /\ bookings[j].status = "pending"
          /\ RowsOverlap(bookings[i], bookings[j]) )
        => seen[j] < i

\* Two overlapping pending bookings of one property, both inserted by
\* requests whose overlap read found the table empty.
C2_RaceWitness ==
    \E i \in BookingIds, j \in BookingIds :
        /\ i < j
        /\ bookings[i].propertyId = bookings[j].propertyId
        /\ bookings[i].status = "pending"
        /\ bookings[j].status = "pending"
        /\ RowsOverlap(bookings[i], bookings[j])
        /\ seen[i] = 0
        /\ seen[j] = 0

\* C3: once a booking is cancelled or completed its status never changes.
C3_TerminalIsFinal ==
    [][\A i \in BookingIds :
          bookings[i].status \in Terminal
          => bookings'[i].status = bookings[i].status]_vars

\* C4: a step changes a booking's status only when it is a status update by
\* the host of the booking's property or by an ADMIN, or a cancel by the
\* booking's own guest.
C4_OnlyAuthorizedChange ==
    [][\A i \in BookingIds :
          bookings'[i].status # bookings[i].status
          => \/ /\ last'.op = "status"
                /\ last'.target = i
                /\ last'.actor \in DOMAIN users
                /\ \/ last'.actor = HostOf(bookings[i])
                   \/ users[last'.actor] = "ADMIN"
             \/ /\ last'.op = "cancel"
                /\ last'.target = i
                /\ last'.actor = bookings[i].guestId]_vars

\* The booking's own guest has cancelled it.
C4_Witness ==
    /\ last.op = "cancel"
    /\ last.code = 200
    /\ last.actor = bookings[last.target].guestId
    /\ bookings[last.target].status = "cancelled"

\* C5: a status update carrying an accepted status, by a HOST who is not the
\* host of the booking's property, answers 403 and changes no booking; by an
\* ADMIN it answers 200 and sets the status, whichever host owns the property.
C5_HostRefusedAdminAllowed ==
    [][\A s \in {"confirmed", "cancelled", "completed"} :
          ( /\ last'.op = "status"
            /\ last'.target \in BookingIds
            /\ last'.actor \in DOMAIN users
            /\ DoUpdateStatus(last'.actor, last'.target, s) )
          => LET u == last'.actor
                 i == last'.target
             IN  /\ (users[u] = "HOST" /\ HostOf(bookings[i]) # u)
                    => (last'.code = 403 /\ bookings' = bookings)
                 /\ users[u] = "ADMIN"
                    => (last'.code = 200 /\ bookings'[i].status = s)]_vars

\* A host was refused on a booking of the other host's property, which an
\* earlier update had already confirmed.
C5_Witness ==
    /\ last.op = "status"
    /\ last.code = 403
    /\ last.actor \in DOMAIN users
    /\ users[last.actor] = "HOST"
    /\ last.target \in BookingIds
    /\ HostOf(bookings[last.target]) # last.actor
    /\ bookings[last.target].status = "confirmed"

\* C6: a cancel by the booking's own guest on a pending or confirmed booking
\* leaves the bookings as they were when the start is less than 24 hours
\* away, and makes the booking cancelled when it is 24 hours away or more.
C6_CancelLeadTime ==
    [][( /\ last'.op = "cancel"
         /\ last'.target \in BookingIds
         /\ DoCancelBooking(last'.actor, last'.target)
         /\ last'.actor = bookings[last'.target].guestId
         /\ bookings[last'.target].status \in ActiveStatuses )
       => IF bookings[last'.target].startDate - now < 24
          THEN bookings' = bookings /\ last'.code = 400
          ELSE bookings'[last'.target].status = "cancelled" /\ last'.code = 200]_vars

\* The guest was refused 23 hours before the start of an active booking.
C6_Witness ==
    /\ last.op = "cancel"
    /\ last.code = 400
    /\ last.actor = bookings[last.target].guestId
    /\ bookings[last.target].status \in ActiveStatuses
    /\ bookings[last.target].startDate - now = 23

\* C7, as claimed: a guest's cancel changes the status only when now is
\* strictly earlier than the start minus 24 hours.
C7_StrictGuard ==
    [][\A i \in BookingIds :
          (last'.op = "cancel" /\ bookings'[i].status # bookings[i].status)
          => now < bookings[i].startDate - 24]_vars

\* C7, amended: a guest's cancel changes the status only when now is no later
\* than the start minus 24 hours.
C7_InclusiveGuard ==
    [][\A i \in BookingIds :
          (last'.op = "cancel" /\ bookings'[i].status # bookings[i].status)
          => now <= bookings[i].startDate - 24]_vars

\* The guest has cancelled exactly 24 hours before the start.
C7_Witness ==
    /\ last.op = "cancel"
    /\ last.code = 200
    /\ bookings[last.target].status = "cancelled"
    /\ now = bookings[last.target].startDate - 24

\* C8: a cancel by the guest of a booking that is already cancelled or
\* completed answers 400 and changes no booking, whatever time remains.
C8_TerminalNotCancelled ==
    [][( /\ last'.op = "cancel"
         /\ last'.target \in BookingIds
         /\ DoCancelBooking(last'.actor, last'.target)
         /\ last'.actor = bookings[last'.target].guestId
         /\ bookings[last'.target].status \in Terminal )
       => (last'.code = 400 /\ bookings' = bookings)]_vars

\* The guest was refused on a completed booking that starts more than 24
\* hours later.
C8_Witness ==
    /\ last.op = "cancel"
    /\ last.code = 400
    /\ last.actor = bookings[last.target].guestId
    /\ bookings[last.target].status = "completed"
    /\ bookings[last.target].startDate - now > 24

\* C9: POST /bookings by the host of the target property answers 400 and
\* creates no booking, for every choice of dates and guest count.
C9_NoSelfBooking ==
    [][\A q \in BookingRequests :
          ( /\ last'.op = "create"
            /\ last'.actor = q[1]
            /\ last'.target = q[2]
            /\ DoCreateBooking(q[1], q[2], q[3], q[4], q[5])
            /\ q[2] \in DOMAIN properties
            /\ properties[q[2]].hostId = q[1] )
          => (last'.code = 400 /\ bookings' = bookings)]_vars

\* A host was refused on its own property while the property has no active
\* booking and the clock is before every start the requests carry.
C9_Witness ==
    /\ last.op = "create"
    /\ last.code = 400
    /\ last.target \in DOMAIN properties
    /\ properties[last.target].hostId = last.actor
    /\ now = 0
    /\ \A i \in BookingIds : bookings[i].status \notin ActiveStatuses

\* C10: POST /bookings with a start earlier than the time of the call
\* creates no booking.
C10_NoPastStart ==
    [][\A q \in BookingRequests :
          ( /\ last'.op = "create"
            /\ last'.actor = q[1]
            /\ last'.target = q[2]
            /\ DoCreateBooking(q[1], q[2], q[3], q[4], q[5])
            /\ q[3] < now )
          => bookings' = bookings]_vars

\* A request was refused for its start in the past.
C10_Witness ==
    /\ last.op = "create"
    /\ last.code = 400
    /\ last.msg = "Start date cannot be in the past"
    /\ now > 24

\* C11: POST /bookings creates no booking for a request whose start is not
\* before its end, and after every step every stored booking starts before
\* it ends.
C11_StartBeforeEnd ==
    [][/\ \A q \in BookingRequests :
              ( /\ last'.op = "create"
                /\ last'.actor = q[1]
                /\ last'.target = q[2]
                /\ q[3] >= q[4]
                /\ DoCreateBooking(q[1], q[2], q[3], q[4], q[5]) )
              => (last'.code # 201 /\ bookings' = bookings)
       /\ \A i \in 1..Len(bookings') :
              bookings'[i].startDate < bookings'[i].endDate]_vars

\* A request with a bad range was refused for its dates while the table
\* holds a booking.
C11_Witness ==
    /\ last.op = "create"
    /\ last.code = 400
    /\ last.msg = "End date must be after start date"
    /\ Len(bookings) > 0

\* C12: every row a step adds to the Booking table is pending and unpaid.
C12_CreatedPendingUnpaid ==
    [][\A i \in 1..Len(bookings') :
          i > Len(bookings)
          => /\ bookings'[i].status = "pending"
             /\ bookings'[i].paymentStatus = "unpaid"]_vars

\* A booking was just created pending and unpaid beside an earlier booking
\* that has been completed.
C12_Witness ==
    /\ last.op = "create"
    /\ last.code = 201
    /\ Len(bookings) > 1
    /\ bookings[1].status = "completed"
    /\ bookings[Len(bookings)].status = "pending"
    /\ bookings[Len(bookings)].paymentStatus = "unpaid"

\* C13: POST /bookings creates no booking for a range that starts before
\* the property's availableFrom, when that is set, or ends after its
\* availableTo, when that is set.
C13_WindowRespected ==
    [][\A q \in GuestRequests :
          ( /\ last'.op = "create"
            /\ last'.actor = q[1]
            /\ last'.target = q[2]
            /\ DoCreateBooking(q[1], q[2], q[3], q[4], q[5])
            /\ \/ /\ properties[q[2]].availableFrom # NullDate
                  /\ q[3] < properties[q[2]].availableFrom
               \/ /\ properties[q[2]].availableTo # NullDate
                  /\ q[4] > properties[q[2]].availableTo )
          => bookings' = bookings]_vars

\* A booking of property pid that is pending or confirmed and ends on start
\* or starts on end.
SharesBoundary(pid, start, end) ==
    \E i \in BookingIds :
        /\ bookings[i].propertyId = pid
        /\ bookings[i].status \in {"pending", "confirmed"}
        /\ (bookings[i].endDate = start \/ bookings[i].startDate = end)

\* C14: a POST /bookings whose range shares a boundary date with a pending
\* or confirmed booking of the same property answers 400 and creates no
\* booking, and an availability check of such a range answers available:
\* false.
C14_BoundaryConflicts ==
    [][/\ \A q \in GuestRequests :
              ( /\ last'.op = "create"
                /\ last'.actor = q[1]
                /\ last'.target = q[2]
                /\ SharesBoundary(q[2], q[3], q[4])
                /\ DoCreateBooking(q[1], q[2], q[3], q[4], q[5]) )
              => (last'.code = 400 /\ bookings' = bookings)
       /\ \A q \in AvailabilityRequests :
              ( /\ last'.op = "availability"
                /\ last'.target = q[1]
                /\ q[1] \in DOMAIN properties
                /\ q[2] # NullDate
                /\ SharesBoundary(q[1], q[2], q[3])
                /\ DoCheckAvailability(q[1], q[2], q[3]) )
              => (last'.code = 200 /\ ~last'.available)]_vars

\* An availability check was answered with the conflicts 24..48 and 60..96:
\* the range asked about touches one at its start and the other at its end
\* and covers no other date of either.
C14_Witness ==
    /\ last.op = "availability"
    /\ last.code = 200
    /\ ~last.available
    /\ last.conflicts = {<<24, 48>>, <<60, 96>>}

\* C15: for an existing property and a request with both dates, the
\* availability check answers available:true exactly when the property is
\* offered, the range starts no earlier than availableFrom and ends no later
\* than availableTo (each when set), and no pending or confirmed booking of
\* that property starts on or before the range's end and ends on or after
\* its start.
C15_AvailableExactlyWhen ==
    [][\A q \in AvailabilityRequests :
          ( /\ last'.op = "availability"
            /\ last'.target = q[1]
            /\ q[1] \in DOMAIN properties
            /\ q[2] # NullDate
            /\ DoCheckAvailability(q[1], q[2], q[3]) )
          => /\ last'.code = 200
             /\ last'.available <=>
                   /\ properties[q[1]].isAvailable
                   /\ \/ properties[q[1]].availableFrom = NullDate
                      \/ q[2] >= properties[q[1]].availableFrom
                   /\ \/ properties[q[1]].availableTo = NullDate
                      \/ q[3] <= properties[q[1]].availableTo
                   /\ ~ \E i \in BookingIds :
                          /\ bookings[i].propertyId = q[1]
                          /\ bookings[i].status \in {"pending", "confirmed"}
                          /\ bookings[i].startDate <= q[3]
                          /\ bookings[i].endDate >= q[2]]_vars

\* The check answered available:true for p1 while a cancelled booking of p1
\* lies on dates every request about p1 touches and a pending booking of p2
\* lies on the dates 24..48.
C15_Witness ==
    /\ last.op = "availability"
    /\ last.code = 200
    /\ last.target = "p1"
    /\ last.available
    /\ \E i \in BookingIds, j \in BookingIds :
          /\ bookings[i].propertyId = "p1"
          /\ bookings[i].status = "cancelled"
          /\ bookings[i].startDate = 48
          /\ bookings[i].endDate = 60
          /\ bookings[j].propertyId = "p2"
          /\ bookings[j].status = "pending"

\* The rows a step adds to the Booking table.
Created == {i \in 1..Len(bookings') : i > Len(bookings)}

\* The property a created row refers to, as it is when the row is created.
PropertyOf(i) == properties[bookings'[i].propertyId]

\* The length of a created row's stay, in hours.
Duration(i) == bookings'[i].endDate - bookings'[i].startDate

\* The number of days a stay of d hours is charged: the least whole number
\* of days, at least one, that covers it.
DaysCharged(d) == CHOOSE n \in 1..(d + 1) : 24 * (n - 1) < d /\ d <= 24 * n

\* C16: a booking created on a property let by the day stores the price
\* times the days of the stay, each started day counting in full.
C16_DayPrice ==
    [][\A i \in Created :
          PropertyOf(i).rentalPeriod = "DAY"
          => bookings'[i].totalPrice = PropertyOf(i).price * DaysCharged(Duration(i))]_vars

\* Two bookings at 100.00 a day are stored at 300.00: one of exactly three
\* days, one of two days and thirteen hours.
C16_Witness ==
    \E i \in BookingIds, j \in BookingIds :
        /\ bookings[i].endDate - bookings[i].startDate = 72
        /\ bookings[i].totalPrice = 30000
        /\ bookings[j].endDate - bookings[j].startDate = 61
        /\ bookings[j].totalPrice = 30000

\* C17, as claimed: a booking created on a property let by the month stores
\* exactly price * days / 30, and on a property let by the year exactly
\* price * days / 365.
C17_ExactQuotient ==
    [][\A i \in Created :
          /\ PropertyOf(i).rentalPeriod = "MONTH"
             => bookings'[i].totalPrice * 30
                = PropertyOf(i).price * DaysCharged(Duration(i))
          /\ PropertyOf(i).rentalPeriod = "YEAR"
             => bookings'[i].totalPrice * 365
                = PropertyOf(i).price * DaysCharged(Duration(i))]_vars

\* C17, amended: the stored total is price * days / 30 (by the month) or
\* price * days / 365 (by the year) to the nearest cent: it is off the exact
\* quotient by half a cent at most, and no stay is rounded to whole months
\* or years.
C17_QuotientToTheCent ==
    [][\A i \in Created :
          /\ PropertyOf(i).rentalPeriod = "MONTH"
             => 2 * Abs(bookings'[i].totalPrice * 30
                        - PropertyOf(i).price * DaysCharged(Duration(i))) <= 30
          /\ PropertyOf(i).rentalPeriod = "YEAR"
             => 2 * Abs(bookings'[i].totalPrice * 365
                        - PropertyOf(i).price * DaysCharged(Duration(i))) <= 365]_vars

\* 45 days at 300.00 a month are stored at 450.00, and one day at 100.00 a
\* month is stored at 3.33.
C17_Witness ==
    \E i \in BookingIds, j \in BookingIds :
        /\ bookings[i].propertyId = "p2"
        /\ bookings[i].endDate - bookings[i].startDate = FortyFiveDays
        /\ bookings[i].totalPrice = 45000
        /\ bookings[j].propertyId = "p1"
        /\ bookings[j].endDate - bookings[j].startDate = 24
        /\ bookings[j].totalPrice = 333

\* C18: a booking created on a property listed for sale stores the
\* property's price, whatever its dates.
C18_SalePrice ==
    [][\A i \in Created :
          PropertyOf(i).listingType = "SALE"
          => bookings'[i].totalPrice = PropertyOf(i).price]_vars

\* Two bookings of the property listed for sale at 200.00, one of a day and
\* one of three days, are both stored at 200.00.
C18_Witness ==
    /\ properties["p1"].listingType = "SALE"
    /\ \E i \in BookingIds, j \in BookingIds :
          /\ bookings[i].endDate - bookings[i].startDate = 24
          /\ bookings[i].totalPrice = 20000
          /\ bookings[j].endDate - bookings[j].startDate = 72
          /\ bookings[j].totalPrice = 20000

\* C19: no step changes the totalPrice, the dates, the guest or the
\* property of a booking that exists, and none removes a booking: not the
\* guest's cancel, the status update, the review, nor an update of the
\* property's price, listing type and rental period.
C19_BookingFrame ==
    [][\A i \in BookingIds :
          /\ i <= Len(bookings')
          /\ bookings'[i].totalPrice = bookings[i].totalPrice
          /\ bookings'[i].startDate = bookings[i].startDate
          /\ bookings'[i].endDate = bookings[i].endDate
          /\ bookings'[i].guestId = bookings[i].guestId
          /\ bookings'[i].propertyId = bookings[i].propertyId]_vars

\* The property is now for sale at 200.00; a booking of one day made at
\* 100.00 a day has since been completed and reviewed and still stores
\* 100.00, and a booking of a day and a half has just been cancelled by its
\* guest and still stores two days at 100.00.
C19_Witness ==
    /\ properties["p1"].listingType = "SALE"
    /\ properties["p1"].price = 20000
    /\ last.op = "cancel"
    /\ last.code = 200
    /\ bookings[last.target].propertyId = "p1"
    /\ bookings[last.target].endDate - bookings[last.target].startDate = 36
    /\ bookings[last.target].totalPrice = 20000
    /\ \E r \in reviews :
          /\ bookings[r.bookingId].propertyId = "p1"
          /\ bookings[r.bookingId].status = "completed"
          /\ bookings[r.bookingId].endDate - bookings[r.bookingId].startDate = 24
          /\ bookings[r.bookingId].totalPrice = 10000

\* C20: a step adds a review only for the booking's own guest, naming the
\* booking's property, while the booking is completed.  A request with every
\* field and a rating in range, on a booking that exists, by a signed-in
\* caller who is not its guest answers 403; by its guest with another
\* property id, or while the booking is not completed, it answers 400; each
\* leaves the reviews as they were.
C20_ReviewOnlyWhenEligible ==
    [][/\ \A r \in reviews' \ reviews :
              /\ r.bookingId \in BookingIds
              /\ r.userId = last'.actor
              /\ r.userId = bookings[r.bookingId].guestId
              /\ r.propertyId = bookings[r.bookingId].propertyId
              /\ bookings[r.bookingId].status = "completed"
       /\ \A id \in BookingIds, q \in ReviewRequests :
              ( /\ last'.op = "review"
                /\ last'.actor = q[1]
                /\ last'.target = id
                /\ q[1] \in DOMAIN users
                /\ q[2] # ""
                /\ q[3] \in GoodRatings
                /\ DoAddReview(q[1], id, q[2], q[3]) )
              => /\ q[1] # bookings[id].guestId
                    => (last'.code = 403 /\ reviews' = reviews)
                 /\ ( /\ q[1] = bookings[id].guestId
                      /\ \/ q[2] # bookings[id].propertyId
                         \/ bookings[id].status # "completed" )
                    => (last'.code = 400 /\ reviews' = reviews)]_vars

\* A completed booking has its review, and the guest was just refused a
\* review of a confirmed booking.
C20_Witness ==
    /\ last.op = "review"
    /\ last.code = 400
    /\ last.msg = "Can only review completed bookings"
    /\ last.target \in BookingIds
    /\ bookings[last.target].status = "confirmed"
    /\ last.actor = bookings[last.target].guestId
    /\ \E r \in reviews : bookings[r.bookingId].status = "completed"

\* C21: after every step no booking has two reviews, and a POST /reviews
\* for a booking that has a review adds none: it answers an error, and
\* with a rating from 1 to 5 it answers 400, review already exists.
C21_OneReviewPerBooking ==
    [][/\ \A r1 \in reviews', r2 \in reviews' :
              r1.bookingId = r2.bookingId => r1 = r2
       /\ \A id \in BookingIds, rating \in GoodRatings \cup BadRatings :
              ( /\ last'.op = "review"
                /\ last'.target = id
                /\ \E r \in reviews : r.bookingId = id
                /\ DoAddReview("g1", id, bookings[id].propertyId, rating) )
              => /\ reviews' = reviews
                 /\ last'.code >= 400
                 /\ rating \in GoodRatings
                    => /\ last'.code = 400
                       /\ last'.msg = "Review already exists for this booking"]_vars

\* The guest was refused a second review of a booking that has one.
C21_Witness ==
    /\ last.op = "review"
    /\ last.code = 400
    /\ last.msg = "Review already exists for this booking"
    /\ \E r \in reviews : r.bookingId = last.target /\ r.userId = last.actor

\* C22: a POST /reviews whose rating is not a whole number from 1 to 5 adds
\* no review, and after every step every stored rating is from 1 to 5.
C22_RatingOneToFive ==
    [][/\ \A r \in reviews' : r.rating \in 1..5
       /\ \A id \in BookingIds, rating \in BadRatings :
              ( /\ last'.op = "review"
                /\ last'.target = id
                /\ DoAddReview("g1", id, bookings[id].propertyId, rating) )
              => reviews' = reviews]_vars

\* C23: every stored booking has a guest count of one or more.
C23_GuestCountPositive ==
    \A i \in BookingIds : bookings[i].guestCount >= 1

\* C24: every property has a rental period, DAY, MONTH or YEAR, exactly
\* when its listing type is RENT.
C24_RentalPeriodIffRent ==
    \A p \in DOMAIN properties :
        properties[p].rentalPeriod \in {"DAY", "MONTH", "YEAR"}
        <=> properties[p].listingType = "RENT"

\* C25: a status update by the host of the booking's property or by an
\* admin sets the booking to the status sent when that is confirmed,
\* cancelled or completed, whatever the booking's status was (pending goes
\* straight to completed); with any other status, or none, a host or admin
\* is answered 400 and no booking changes.
C25_AcceptedStatuses ==
    [][\A q \in StatusRequests :
          ( /\ last'.op = "status"
            /\ last'.actor = q[1]
            /\ last'.target \in BookingIds
            /\ q[1] \in DOMAIN users
            /\ users[q[1]] \in {"HOST", "ADMIN"}
            /\ DoUpdateStatus(q[1], last'.target, q[2]) )
          => LET b == bookings[last'.target]
             IN  /\ ( /\ q[2] \in {"confirmed", "cancelled", "completed"}
                      /\ (HostOf(b) = q[1] \/ users[q[1]] = "ADMIN") )
                    => /\ last'.code = 200
                       /\ bookings'[last'.target].status = q[2]
                 /\ q[2] \notin {"confirmed", "cancelled", "completed"}
                    => (last'.code = 400 /\ bookings' = bookings)]_vars

\* The only booking, created pending, has just been set to completed by the
\* host of its property.
C25_Witness ==
    /\ Len(bookings) = 1
    /\ last.op = "status"
    /\ last.code = 200
    /\ last.actor = HostOf(bookings[1])
    /\ bookings[1].status = "completed"

\* C26: a POST /bookings, cancel, status update or POST /reviews that is
\* answered 400, 401, 403 or 404 leaves every booking and every review as
\* it was.
C26_ErrorsWriteNothing ==
    [][( /\ last'.op \in {"create", "cancel", "status", "review"}
         /\ last'.code \in {400, 401, 403, 404} )
       => (bookings' = bookings /\ reviews' = reviews)]_vars

\* The guest was refused a cancel 23 hours before the start of a booking
\* that is still confirmed, beside a completed booking that has its review.
C26_Witness ==
    /\ last.op = "cancel"
    /\ last.code = 400
    /\ last.target \in BookingIds
    /\ bookings[last.target].status = "confirmed"
    /\ bookings[last.target].startDate - now < 24
    /\ \E r \in reviews : bookings[r.bookingId].status = "completed"

\* C27: in every reachable state every review belongs to a booking whose
\* status is completed.
C27_ReviewsOfCompleted ==
    \A r \in reviews :
        /\ r.bookingId \in BookingIds
        /\ bookings[r.bookingId].status = "completed"

\* C28: when a guest cancel and a host or admin status update interleave
\* on one booking, the cancel's write finds the status it checked: the
\* booking is pending or confirmed at the moment the write sets cancelled.
C28_CancelWritesOverCancellable ==
    [][( /\ Len(inflight') < Len(inflight)
         /\ last'.op = "cancel"
         /\ last'.code = 200 )
       => ( /\ last'.target \in BookingIds
            /\ bookings[last'.target].status \in {"pending", "confirmed"} )]_vars

\* C29: after any upload, delete or set-featured request, each property
\* that has an image has exactly one featured image, and the image a
\* delete request removed is an image of the property the request named.
C29_OneFeaturedAndOwnImage ==
    [][/\ \A pid \in PropertyIds :
              \/ \A i \in 1..Len(images') :
                     images'[i].deleted \/ images'[i].propertyId # pid
              \/ Cardinality({i \in 1..Len(images') :
                                  /\ ~images'[i].deleted
                                  /\ images'[i].propertyId = pid
                                  /\ images'[i].isFeatured}) = 1
       /\ (last'.op = "deleteimage" /\ last'.code = 200)
          => images[last'.image].propertyId = last'.target]_vars

\* C30: a user comes to hold the role ADMIN only through a role update
\* that a user who is ADMIN already made: no registration creates an ADMIN.
C30_AdminOnlyByGrant ==
    [][\A u \in DOMAIN users' :
          users'[u] = "ADMIN"
          => \/ u \in DOMAIN users /\ users[u] = "ADMIN"
             \/ /\ last'.op = "role"
                /\ last'.code = 200
                /\ last'.target = u
                /\ last'.actor \in DOMAIN users
                /\ users[last'.actor] = "ADMIN"]_vars

====
